---- MODULE Spec2Model ----
(***************************************************************************)
(* Model of the two cargo build scripts of ZYZVerilog:                     *)
(*   src/lib/lexer/build.rs     metadata fragment + native (CMake/Ninja)   *)
(*                              build orchestration                        *)
(*   src/lib/analysis/build.rs  metadata fragment only                     *)
(* One run of a script is a walk of pc through the statements of its main; *)
(* the file system (fragment files, native build directory) outlives the   *)
(* run, so a behaviour is a sequence of runs against the same files.       *)
(***************************************************************************)
EXTENDS Integers, Sequences, FiniteSets, TLC

VARIABLES pc, script, loc, stdout, panic, procs, running, fs, hist

vars == <<pc, script, loc, stdout, panic, procs, running, fs, hist>>

(***************************************************************************)
(* Bounds of the environment the scripts run in.                           *)
(***************************************************************************)
MaxRoot == 2
MaxTime == 2

RootNames == <<"proj_a", "proj_b", "proj_c", "proj_d">>
TimeStrings == <<"2026-01-01 00:00:01 UTC", "2026-01-01 00:00:02 UTC",
                 "2026-01-01 00:00:03 UTC", "2026-01-01 00:00:04 UTC">>

\* values cargo may put in CARGO_MANIFEST_DIR (paths are component sequences)
Roots == { <<RootNames[i]>> : i \in 1..MaxRoot }
\* instants chrono::Utc::now() may return
Times == 1..MaxTime
\* the value cargo puts in CARGO_PKG_VERSION for each crate
PkgVersion(s) == IF s = "lexer" THEN "0.1.0" ELSE "0.2.0"
\* the value cargo puts in OUT_DIR
OutDirValue == <<"out">>
\* the value cargo puts in CARGO_PKG_NAME for each crate
PkgName(s) == IF s = "lexer" THEN "lexer" ELSE "analysis"
\* exit codes a subprocess may report
ExitCodes == {0, 1}

NoPath == <<>>
\* an exit status not yet obtained; an obtained one is <<code>>
NoStatus == <<>>
NoPanic == [msg |-> "", cause |-> "", line |-> 0]

(***************************************************************************)
(* Pure helpers.                                                           *)
(***************************************************************************)
\* Path::join with a relative component
Join(path, comp) == Append(path, comp)

\* chrono format("%Y-%m-%d %H:%M:%S UTC")
FormatTime(t) == TimeStrings[t]

\* variant: unwrap_or_default, a missing variable reads as empty
EnvVarUnwrap_OrDefault(present) == TRUE

\* env::var(..).unwrap(): TRUE when the run goes on
EnvVarUnwrap(present) == present

\* ExitStatus::success
Success(code) == code = 0

\* the text produced by format! for the metadata fragment: three constants
BuildInfo(t, version, name) ==
    << [const |-> "BUILD_TIME", value |-> FormatTime(t)],
       [const |-> "PKG_VERSION", value |-> version],
       [const |-> "PKG_NAME", value |-> name] >>

\* variant: the file is opened for appending
FsWrite_Append(old, content, res) ==
    CASE res = "ok" -> [exists |-> TRUE, lines |-> old.lines \o content]
      [] res = "write_err" -> [exists |-> TRUE, lines |-> old.lines]
      [] OTHER -> old

\* fs::write: create/truncate the file, then write the whole content.
\* res = "ok" | "create_err" (file untouched) | "write_err" (truncated)
FsWrite(old, content, res) ==
    CASE res = "ok" -> [exists |-> TRUE, lines |-> content]
      [] res = "write_err" -> [exists |-> TRUE, lines |-> <<>>]
      [] OTHER -> old

\* variant: std::fs::create_dir, which refuses an existing directory
CreateDir(ws, io_ok) ==
    IF ws # "absent" THEN [ok |-> FALSE, ws |-> ws]
    ELSE IF io_ok THEN [ok |-> TRUE, ws |-> "empty"]
    ELSE [ok |-> FALSE, ws |-> ws]

\* std::fs::create_dir_all on the build directory: an existing directory is
\* accepted; a missing one is created unless the file system refuses
CreateDirAll(ws, io_ok) ==
    IF ws # "absent" THEN [ok |-> TRUE, ws |-> ws]
    ELSE IF io_ok THEN [ok |-> TRUE, ws |-> "empty"]
    ELSE [ok |-> FALSE, ws |-> ws]

\* project_root.join("build")
c_build_dir(project_root) == Join(project_root, "build")

\* the arguments given to cmake
CmakeArgs == <<"-G", "Ninja", "-DCMAKE_BUILD_TYPE=Release", "..">>

\* panic messages
UnwrapMsg == "called Result::unwrap() on an Err value"
MkdirMsg == "Failed to create build directory"
\* variant: the ninja message pasted onto the cmake launch
CmakeSpawnMsg_Pasted == "Failed to execute ninja. Make sure Ninja is installed."
CmakeSpawnMsg == "Failed to execute cmake. Make sure CMake is installed."
CmakeFailMsg == "CMake configuration failed"
NinjaSpawnMsg == "Failed to execute ninja. Make sure Ninja is installed."
\* variant: the cmake message pasted onto the ninja status check
NinjaFailMsg_Pasted == "CMake configuration failed"
NinjaFailMsg == "Ninja build failed"

\* variant: the search path announces the project root, not the build directory
Line_SearchRoot(label, dir) ==
    CASE label = "L27" -> [key |-> "rerun-if-changed", value |-> <<"CMakeLists.txt">>]
      [] label = "L28" -> [key |-> "rerun-if-changed", value |-> <<"src/*.c">>]
      [] label = "L29" -> [key |-> "rerun-if-changed", value |-> <<"inc/*.h">>]
      [] label = "L30" -> [key |-> "rerun-if-changed", value |-> <<"Cargo.toml">>]
      [] label = "L31" -> [key |-> "rerun-if-changed", value |-> <<"src/">>]
      [] label = "L32" -> [key |-> "rustc-cfg", value |-> <<"lexer_crate">>]
      [] label = "L65" -> [key |-> "rustc-link-search",
                           value |-> <<"native">> \o SubSeq(dir, 1, Len(dir) - 1)]
      [] label = "L66" -> [key |-> "rustc-link-lib", value |-> <<"static", "native">>]

\* variant: the manifest trigger is declared by its absolute path
Line_AbsManifest(label, dir) ==
    CASE label = "L27" -> [key |-> "rerun-if-changed",
                           value |-> Append(SubSeq(dir, 1, Len(dir) - 1), "CMakeLists.txt")]
      [] label = "L28" -> [key |-> "rerun-if-changed", value |-> <<"src/*.c">>]
      [] label = "L29" -> [key |-> "rerun-if-changed", value |-> <<"inc/*.h">>]
      [] label = "L30" -> [key |-> "rerun-if-changed", value |-> <<"Cargo.toml">>]
      [] label = "L31" -> [key |-> "rerun-if-changed", value |-> <<"src/">>]
      [] label = "L32" -> [key |-> "rustc-cfg", value |-> <<"lexer_crate">>]
      [] label = "L65" -> [key |-> "rustc-link-search", value |-> <<"native">> \o dir]
      [] label = "L66" -> [key |-> "rustc-link-lib", value |-> <<"static", "native">>]

\* the line each println! of the lexer script writes to stdout;
\* dir is c_build_dir, displayed by the link-search line
Line(label, dir) ==
    CASE label = "L27" -> [key |-> "rerun-if-changed", value |-> <<"CMakeLists.txt">>]
      [] label = "L28" -> [key |-> "rerun-if-changed", value |-> <<"src/*.c">>]
      [] label = "L29" -> [key |-> "rerun-if-changed", value |-> <<"inc/*.h">>]
      [] label = "L30" -> [key |-> "rerun-if-changed", value |-> <<"Cargo.toml">>]
      [] label = "L31" -> [key |-> "rerun-if-changed", value |-> <<"src/">>]
      [] label = "L32" -> [key |-> "rustc-cfg", value |-> <<"lexer_crate">>]
      [] label = "L65" -> [key |-> "rustc-link-search", value |-> <<"native">> \o dir]
      [] label = "L66" -> [key |-> "rustc-link-lib", value |-> <<"static", "native">>]

\* the line each println! of the analysis script writes to stdout
ALine(label) ==
    CASE label = "A20" -> [key |-> "rerun-if-changed", value |-> <<"Cargo.toml">>]
      [] label = "A21" -> [key |-> "rerun-if-changed", value |-> <<"src/">>]
      [] label = "A22" -> [key |-> "rustc-cfg", value |-> <<"analysis_crate">>]

\* variant: main returns after the search path, the link-lib line is missing
AfterPrint_NoLinkLib(label) ==
    CASE label = "L27" -> "L28"
      [] label = "L28" -> "L29"
      [] label = "L29" -> "L30"
      [] label = "L30" -> "L31"
      [] label = "L31" -> "L32"
      [] label = "L32" -> "L36"
      [] label = "L65" -> "done"
      [] label = "L66" -> "done"

\* variant: the manifest is tested before the src/ trigger and the flag are declared
AfterPrint_CheckEarly(label) ==
    CASE label = "L27" -> "L28"
      [] label = "L28" -> "L29"
      [] label = "L29" -> "L30"
      [] label = "L30" -> "L36"
      [] label = "L31" -> "L32"
      [] label = "L32" -> "L36"
      [] label = "L65" -> "L66"
      [] label = "L66" -> "done"

\* variant: the rustc-cfg flag is not declared
AfterPrint_NoFlag(label) ==
    CASE label = "L27" -> "L28"
      [] label = "L28" -> "L29"
      [] label = "L29" -> "L30"
      [] label = "L30" -> "L31"
      [] label = "L31" -> "L36"
      [] label = "L32" -> "L36"
      [] label = "L65" -> "L66"
      [] label = "L66" -> "done"

\* the statement after each println! of the lexer script
AfterPrint(label) ==
    CASE label = "L27" -> "L28"
      [] label = "L28" -> "L29"
      [] label = "L29" -> "L30"
      [] label = "L30" -> "L31"
      [] label = "L31" -> "L32"
      [] label = "L32" -> "L36"
      [] label = "L65" -> "L66"
      [] label = "L66" -> "done"

\* the statement after each println! of the analysis script
AAfterPrint(label) ==
    CASE label = "A20" -> "A21"
      [] label = "A21" -> "A22"
      [] label = "A22" -> "done"

\* variant: the build runs whether or not the manifest exists
AfterExists_Always(exists) == "L38"

\* variant: the test is inverted
AfterExists_Inverted(exists) == IF exists THEN "done" ELSE "L38"

\* if cmake_file.exists() { .. }: the statement after the test
AfterExists(exists) == IF exists THEN "L38" ELSE "done"

\* variant: the exit status of cmake is not looked at
CmakeCheck_Ignored(code) == TRUE

\* if !cmake_status.success() { panic!(..) }: TRUE when the run goes on
CmakeCheck(code) == Success(code)

\* variant: the exit status of ninja is not looked at
NinjaCheck_Ignored(code) == TRUE

\* if !ninja_status.success() { panic!(..) }: TRUE when the run goes on
NinjaCheck(code) == Success(code)

(***************************************************************************)
(* State.                                                                  *)
(***************************************************************************)
FragPaths == { Join(OutDirValue, "lexer_info.rs"), Join(OutDirValue, "analysis_info.rs") }
NoFile == [exists |-> FALSE, lines |-> <<>>]

\* what is remembered of an earlier run of the lexer script, to compare a
\* later run with: what it found, how it ended and what it wrote to stdout
NoRun == [manifest |-> "unchecked", outcome |-> "none", root |-> NoPath,
          triggers |-> <<>>, links |-> <<>>]

InitLoc == [out_dir |-> NoPath, manifest_dir |-> NoPath, now |-> 0,
            version |-> "", name |-> "", missing |-> "", written |-> "none",
            manifest |-> "unchecked", mkdir |-> "none",
            cmake_status |-> NoStatus, ninja_status |-> NoStatus,
            attempts |-> <<>>, ws0 |-> "absent"]

Init ==
    /\ pc = "idle"
    /\ script = "none"
    /\ loc = InitLoc
    /\ stdout = <<>>
    /\ panic = NoPanic
    /\ procs = <<>>
    /\ running = "none"
    /\ fs = [frag |-> [p \in FragPaths |-> NoFile], ws |-> [r \in Roots |-> "absent"]]
    /\ hist = NoRun

\* lines of a given kind in an output
Select(out, k) == SelectSeq(out, LAMBDA d : d.key = k)
Triggers(out) == Select(out, "rerun-if-changed")
LinkLines(out) == SelectSeq(out, LAMBDA d : d.key \in {"rustc-link-search", "rustc-link-lib"})

\* how a finished run ended, in the terms of the orchestrator's state machine
Outcome ==
    IF panic # NoPanic THEN "Failed"
    ELSE IF script = "analysis" THEN "Emitted"
    ELSE IF loc.manifest = "absent" THEN "NoOp"
    ELSE "LinkAnnounced"

(***************************************************************************)
(* cargo starts a build script; a finished run is followed by another.     *)
(* Any one of the earlier runs may be the remembered one.                  *)
(***************************************************************************)
StartLexer ==
    /\ pc = "idle"
    /\ pc' = "L7"
    /\ script' = "lexer"
    /\ UNCHANGED <<loc, stdout, panic, procs, running, fs, hist>>

StartAnalysis ==
    /\ pc = "idle"
    /\ pc' = "A6"
    /\ script' = "analysis"
    /\ UNCHANGED <<loc, stdout, panic, procs, running, fs, hist>>

Restart ==
    /\ pc = "done"
    /\ pc' = "idle"
    /\ script' = "none"
    /\ loc' = InitLoc
    /\ stdout' = <<>>
    /\ panic' = NoPanic
    /\ procs' = <<>>
    /\ running' = "none"
    /\ \E remember \in BOOLEAN :
         hist' = IF remember /\ script = "lexer"
                 THEN [manifest |-> loc.manifest, outcome |-> Outcome,
                       root |-> loc.manifest_dir,
                       triggers |-> Triggers(stdout), links |-> LinkLines(stdout)]
                 ELSE hist
    /\ UNCHANGED fs

(***************************************************************************)
(* src/lib/lexer/build.rs, fn main                                         *)
(***************************************************************************)
\* let out_dir = env::var("OUT_DIR").unwrap();
L7_OutDir ==
    /\ pc = "L7"
    /\ \E present \in BOOLEAN :
         IF EnvVarUnwrap(present)
         THEN /\ loc' = [loc EXCEPT !.out_dir = IF present THEN OutDirValue ELSE @,
                                    !.missing = IF present THEN @ ELSE "OUT_DIR"]
              /\ pc' = "L8"
              /\ UNCHANGED panic
         ELSE /\ panic' = [msg |-> UnwrapMsg, cause |-> "VarError::NotPresent", line |-> 7]
              /\ pc' = "done"
              /\ loc' = [loc EXCEPT !.missing = "OUT_DIR"]
    /\ UNCHANGED <<script, stdout, procs, running, fs, hist>>

\* let manifest_dir = env::var("CARGO_MANIFEST_DIR").unwrap();
L8_ManifestDir ==
    /\ pc = "L8"
    /\ \E present \in BOOLEAN, root \in Roots :
         IF EnvVarUnwrap(present)
         THEN /\ loc' = [loc EXCEPT !.manifest_dir = IF present THEN root ELSE @,
                                    !.ws0 = IF present THEN fs.ws[root] ELSE @,
                                    !.missing = IF present THEN @ ELSE "CARGO_MANIFEST_DIR"]
              /\ pc' = "L16"
              /\ UNCHANGED panic
         ELSE /\ panic' = [msg |-> UnwrapMsg, cause |-> "VarError::NotPresent", line |-> 8]
              /\ pc' = "done"
              /\ loc' = [loc EXCEPT !.missing = "CARGO_MANIFEST_DIR"]
    /\ UNCHANGED <<script, stdout, procs, running, fs, hist>>

\* chrono::Utc::now().format(..)
L16_Now ==
    /\ pc = "L16"
    /\ \E t \in Times : loc' = [loc EXCEPT !.now = t]
    /\ pc' = "L17"
    /\ UNCHANGED <<script, stdout, panic, procs, running, fs, hist>>

\* env::var("CARGO_PKG_VERSION").unwrap()
L17_Version ==
    /\ pc = "L17"
    /\ \E present \in BOOLEAN :
         IF EnvVarUnwrap(present)
         THEN /\ loc' = [loc EXCEPT !.version = IF present THEN PkgVersion(script) ELSE @,
                                    !.missing = IF present THEN @ ELSE "CARGO_PKG_VERSION"]
              /\ pc' = "L18"
              /\ UNCHANGED panic
         ELSE /\ panic' = [msg |-> UnwrapMsg, cause |-> "VarError::NotPresent", line |-> 17]
              /\ pc' = "done"
              /\ loc' = [loc EXCEPT !.missing = "CARGO_PKG_VERSION"]
    /\ UNCHANGED <<script, stdout, procs, running, fs, hist>>

\* env::var("CARGO_PKG_NAME").unwrap()
L18_Name ==
    /\ pc = "L18"
    /\ \E present \in BOOLEAN :
         IF EnvVarUnwrap(present)
         THEN /\ loc' = [loc EXCEPT !.name = IF present THEN PkgName(script) ELSE @,
                                    !.missing = IF present THEN @ ELSE "CARGO_PKG_NAME"]
              /\ pc' = "L20"
              /\ UNCHANGED panic
         ELSE /\ panic' = [msg |-> UnwrapMsg, cause |-> "VarError::NotPresent", line |-> 18]
              /\ pc' = "done"
              /\ loc' = [loc EXCEPT !.missing = "CARGO_PKG_NAME"]
    /\ UNCHANGED <<script, stdout, procs, running, fs, hist>>

\* fs::write(&dest_path, build_info).unwrap();
L20_Write ==
    /\ pc = "L20"
    /\ \E res \in {"ok", "create_err", "write_err"} :
         LET dest_path == Join(loc.out_dir, "lexer_info.rs")
             build_info == BuildInfo(loc.now, loc.version, loc.name)
         IN /\ fs' = [fs EXCEPT !.frag[dest_path] = FsWrite(@, build_info, res)]
            /\ IF res = "ok"
               THEN /\ pc' = "L27"
                    /\ loc' = [loc EXCEPT !.written = "ok"]
                    /\ UNCHANGED panic
               ELSE /\ panic' = [msg |-> UnwrapMsg, cause |-> "io::Error", line |-> 20]
                    /\ pc' = "done"
                    /\ loc' = [loc EXCEPT !.written = "err"]
    /\ UNCHANGED <<script, stdout, procs, running, hist>>

\* variant: the library name carries the build time
L_Println_Stamped ==
    /\ pc \in {"L27", "L28", "L29", "L30", "L31", "L32", "L65", "L66"}
    /\ stdout' = Append(stdout,
                        IF pc = "L66"
                        THEN [key |-> "rustc-link-lib",
                              value |-> <<"static", "native", FormatTime(loc.now)>>]
                        ELSE Line(pc, c_build_dir(loc.manifest_dir)))
    /\ pc' = AfterPrint(pc)
    /\ UNCHANGED <<script, loc, panic, procs, running, fs, hist>>

\* println!("cargo:...") at lines 27..32 and 65..66
L_Println ==
    /\ pc \in {"L27", "L28", "L29", "L30", "L31", "L32", "L65", "L66"}
    /\ stdout' = Append(stdout, Line(pc, c_build_dir(loc.manifest_dir)))
    /\ pc' = AfterPrint(pc)
    /\ UNCHANGED <<script, loc, panic, procs, running, fs, hist>>

\* if cmake_file.exists() { .. }
L36_Exists ==
    /\ pc = "L36"
    /\ \E exists \in BOOLEAN :
         /\ loc' = [loc EXCEPT !.manifest = IF exists THEN "present" ELSE "absent"]
         /\ pc' = AfterExists(exists)
    /\ UNCHANGED <<script, stdout, panic, procs, running, fs, hist>>

\* variant: the result of create_dir_all is dropped
L38_CreateDir_Ignored ==
    /\ pc = "L38"
    /\ \E io_ok \in BOOLEAN :
         LET r == CreateDirAll(fs.ws[loc.manifest_dir], io_ok)
         IN /\ fs' = [fs EXCEPT !.ws[loc.manifest_dir] = r.ws]
            /\ loc' = [loc EXCEPT !.mkdir = IF r.ok THEN "ok" ELSE "err"]
            /\ pc' = "L41"
    /\ UNCHANGED <<script, stdout, panic, procs, running, hist>>

\* std::fs::create_dir_all(&c_build_dir).expect("Failed to create build directory");
L38_CreateDir ==
    /\ pc = "L38"
    /\ \E io_ok \in BOOLEAN :
         LET r == CreateDirAll(fs.ws[loc.manifest_dir], io_ok)
         IN /\ fs' = [fs EXCEPT !.ws[loc.manifest_dir] = r.ws]
            /\ IF r.ok
               THEN /\ loc' = [loc EXCEPT !.mkdir = "ok"]
                    /\ pc' = "L41"
                    /\ UNCHANGED panic
               ELSE /\ loc' = [loc EXCEPT !.mkdir = "err"]
                    /\ panic' = [msg |-> MkdirMsg, cause |-> "io::Error", line |-> 38]
                    /\ pc' = "done"
    /\ UNCHANGED <<script, stdout, procs, running, hist>>

\* variant: cmake is started with spawn() and not waited for
L41_SpawnCmake_NoWait ==
    /\ pc = "L41"
    /\ \E found \in BOOLEAN :
         IF found
         THEN /\ procs' = Append(procs, [tool |-> "cmake",
                                         cwd |-> c_build_dir(loc.manifest_dir),
                                         args |-> CmakeArgs])
              /\ running' = "cmake"
              /\ pc' = "L55"
              /\ UNCHANGED panic
         ELSE /\ panic' = [msg |-> CmakeSpawnMsg, cause |-> "io::Error", line |-> 48]
              /\ pc' = "done"
              /\ UNCHANGED <<procs, running>>
    /\ loc' = [loc EXCEPT !.attempts = Append(@, "cmake")]
    /\ UNCHANGED <<script, stdout, fs, hist>>

\* Command::new("cmake").current_dir(..).arg(..).status(): spawn
L41_SpawnCmake ==
    /\ pc = "L41"
    /\ \E found \in BOOLEAN :
         IF found
         THEN /\ procs' = Append(procs, [tool |-> "cmake",
                                         cwd |-> c_build_dir(loc.manifest_dir),
                                         args |-> CmakeArgs])
              /\ running' = "cmake"
              /\ pc' = "L47"
              /\ UNCHANGED panic
         ELSE /\ panic' = [msg |-> CmakeSpawnMsg, cause |-> "io::Error", line |-> 48]
              /\ pc' = "done"
              /\ UNCHANGED <<procs, running>>
    /\ loc' = [loc EXCEPT !.attempts = Append(@, "cmake")]
    /\ UNCHANGED <<script, stdout, fs, hist>>

\* .status(): wait for cmake to terminate
L47_WaitCmake ==
    /\ pc = "L47"
    /\ running = "cmake"
    /\ \E code \in ExitCodes : loc' = [loc EXCEPT !.cmake_status = <<code>>]
    /\ running' = "none"
    /\ fs' = [fs EXCEPT !.ws[loc.manifest_dir] = "populated"]
    /\ pc' = "L50"
    /\ UNCHANGED <<script, stdout, panic, procs, hist>>

\* variant: a failed configuration is tried again
L50_CheckCmake_Retry ==
    /\ pc = "L50"
    /\ IF CmakeCheck(loc.cmake_status[1])
       THEN pc' = "L55"
       ELSE pc' = "L41"
    /\ UNCHANGED <<script, loc, stdout, panic, procs, running, fs, hist>>

\* if !cmake_status.success() { panic!("CMake configuration failed"); }
L50_CheckCmake ==
    /\ pc = "L50"
    /\ IF CmakeCheck(loc.cmake_status[1])
       THEN /\ pc' = "L55"
            /\ UNCHANGED panic
       ELSE /\ panic' = [msg |-> CmakeFailMsg, cause |-> "", line |-> 51]
            /\ pc' = "done"
    /\ UNCHANGED <<script, loc, stdout, procs, running, fs, hist>>

\* Command::new("ninja").current_dir(..).status(): spawn
L55_SpawnNinja ==
    /\ pc = "L55"
    /\ \E found \in BOOLEAN :
         IF found
         THEN /\ procs' = Append(procs, [tool |-> "ninja",
                                         cwd |-> c_build_dir(loc.manifest_dir),
                                         args |-> <<>>])
              /\ running' = "ninja"
              /\ pc' = "L57"
              /\ UNCHANGED panic
         ELSE /\ panic' = [msg |-> NinjaSpawnMsg, cause |-> "io::Error", line |-> 58]
              /\ pc' = "done"
              /\ UNCHANGED <<procs, running>>
    /\ loc' = [loc EXCEPT !.attempts = Append(@, "ninja")]
    /\ UNCHANGED <<script, stdout, fs, hist>>

\* .status(): wait for ninja to terminate
L57_WaitNinja ==
    /\ pc = "L57"
    /\ running = "ninja"
    /\ \E code \in ExitCodes : loc' = [loc EXCEPT !.ninja_status = <<code>>]
    /\ running' = "none"
    /\ fs' = [fs EXCEPT !.ws[loc.manifest_dir] = "populated"]
    /\ pc' = "L60"
    /\ UNCHANGED <<script, stdout, panic, procs, hist>>

\* variant: a failed build makes main return instead of panicking
L60_CheckNinja_Return ==
    /\ pc = "L60"
    /\ IF NinjaCheck(loc.ninja_status[1])
       THEN pc' = "L65"
       ELSE pc' = "done"
    /\ UNCHANGED <<script, loc, stdout, panic, procs, running, fs, hist>>

\* if !ninja_status.success() { panic!("Ninja build failed"); }
L60_CheckNinja ==
    /\ pc = "L60"
    /\ IF NinjaCheck(loc.ninja_status[1])
       THEN /\ pc' = "L65"
            /\ UNCHANGED panic
       ELSE /\ panic' = [msg |-> NinjaFailMsg, cause |-> "", line |-> 61]
            /\ pc' = "done"
    /\ UNCHANGED <<script, loc, stdout, procs, running, fs, hist>>

(***************************************************************************)
(* src/lib/analysis/build.rs, fn main                                      *)
(***************************************************************************)
\* let out_dir = env::var("OUT_DIR").unwrap();
A6_OutDir ==
    /\ pc = "A6"
    /\ \E present \in BOOLEAN :
         IF EnvVarUnwrap(present)
         THEN /\ loc' = [loc EXCEPT !.out_dir = IF present THEN OutDirValue ELSE @,
                                    !.missing = IF present THEN @ ELSE "OUT_DIR"]
              /\ pc' = "A14"
              /\ UNCHANGED panic
         ELSE /\ panic' = [msg |-> UnwrapMsg, cause |-> "VarError::NotPresent", line |-> 6]
              /\ pc' = "done"
              /\ loc' = [loc EXCEPT !.missing = "OUT_DIR"]
    /\ UNCHANGED <<script, stdout, procs, running, fs, hist>>

\* chrono::Utc::now().format(..)
A14_Now ==
    /\ pc = "A14"
    /\ \E t \in Times : loc' = [loc EXCEPT !.now = t]
    /\ pc' = "A15"
    /\ UNCHANGED <<script, stdout, panic, procs, running, fs, hist>>

\* env::var("CARGO_PKG_VERSION").unwrap()
A15_Version ==
    /\ pc = "A15"
    /\ \E present \in BOOLEAN :
         IF EnvVarUnwrap(present)
         THEN /\ loc' = [loc EXCEPT !.version = IF present THEN PkgVersion(script) ELSE @,
                                    !.missing = IF present THEN @ ELSE "CARGO_PKG_VERSION"]
              /\ pc' = "A16"
              /\ UNCHANGED panic
         ELSE /\ panic' = [msg |-> UnwrapMsg, cause |-> "VarError::NotPresent", line |-> 15]
              /\ pc' = "done"
              /\ loc' = [loc EXCEPT !.missing = "CARGO_PKG_VERSION"]
    /\ UNCHANGED <<script, stdout, procs, running, fs, hist>>

\* env::var("CARGO_PKG_NAME").unwrap()
A16_Name ==
    /\ pc = "A16"
    /\ \E present \in BOOLEAN :
         IF EnvVarUnwrap(present)
         THEN /\ loc' = [loc EXCEPT !.name = IF present THEN PkgName(script) ELSE @,
                                    !.missing = IF present THEN @ ELSE "CARGO_PKG_NAME"]
              /\ pc' = "A19"
              /\ UNCHANGED panic
         ELSE /\ panic' = [msg |-> UnwrapMsg, cause |-> "VarError::NotPresent", line |-> 16]
              /\ pc' = "done"
              /\ loc' = [loc EXCEPT !.missing = "CARGO_PKG_NAME"]
    /\ UNCHANGED <<script, stdout, procs, running, fs, hist>>

\* fs::write(&dest_path, build_info).unwrap();
A19_Write ==
    /\ pc = "A19"
    /\ \E res \in {"ok", "create_err", "write_err"} :
         LET dest_path == Join(loc.out_dir, "analysis_info.rs")
             build_info == BuildInfo(loc.now, loc.version, loc.name)
         IN /\ fs' = [fs EXCEPT !.frag[dest_path] = FsWrite(@, build_info, res)]
            /\ IF res = "ok"
               THEN /\ pc' = "A20"
                    /\ loc' = [loc EXCEPT !.written = "ok"]
                    /\ UNCHANGED panic
               ELSE /\ panic' = [msg |-> UnwrapMsg, cause |-> "io::Error", line |-> 19]
                    /\ pc' = "done"
                    /\ loc' = [loc EXCEPT !.written = "err"]
    /\ UNCHANGED <<script, stdout, procs, running, hist>>

\* println!("cargo:...") at lines 20..22
A_Println ==
    /\ pc \in {"A20", "A21", "A22"}
    /\ stdout' = Append(stdout, ALine(pc))
    /\ pc' = AAfterPrint(pc)
    /\ UNCHANGED <<script, loc, panic, procs, running, fs, hist>>

(***************************************************************************)
(* Specifications.                                                         *)
(***************************************************************************)
\* a step of the running script
RunStep ==
    \/ L7_OutDir \/ L8_ManifestDir \/ L16_Now \/ L17_Version \/ L18_Name
    \/ L20_Write \/ L_Println \/ L36_Exists \/ L38_CreateDir
    \/ L41_SpawnCmake \/ L47_WaitCmake \/ L50_CheckCmake
    \/ L55_SpawnNinja \/ L57_WaitNinja \/ L60_CheckNinja
    \/ A6_OutDir \/ A14_Now \/ A15_Version \/ A16_Name \/ A19_Write \/ A_Println

Next == StartLexer \/ StartAnalysis \/ Restart \/ RunStep

Spec == Init /\ [][Next]_vars

\* a started script runs to its end, and every subprocess terminates
FairSpec == Spec /\ WF_vars(RunStep)

(***************************************************************************)
(* Properties.                                                             *)
(***************************************************************************)
SearchLines == Select(stdout, "rustc-link-search")
LibLines == Select(stdout, "rustc-link-lib")
HasLink == Len(LinkLines(stdout)) > 0
Invoked(tool) == \E i \in DOMAIN procs : procs[i].tool = tool
Exited(st) == st # NoStatus
ExitedOk(st) == Exited(st) /\ Success(st[1])
Finished == pc = "done"
LexerRun == script = "lexer"

\* C1: a link directive (search path or static link) is on stdout only if
\* cmake and ninja were both invoked in this run and both exited with success.
C1_LinkOnlyAfterBothSucceed ==
    HasLink => /\ Invoked("cmake") /\ Invoked("ninja")
               /\ ExitedOk(loc.cmake_status)
               /\ ExitedOk(loc.ninja_status)

C1_Witness == Finished /\ Len(SearchLines) = 1 /\ Len(LibLines) = 1

ConfigureFailed ==
    loc.manifest = "present" /\ Exited(loc.cmake_status) /\ ~Success(loc.cmake_status[1])

ConfigureFailedEnd ==
    /\ Finished /\ Outcome = "Failed"
    /\ panic.msg = "CMake configuration failed"

\* C2: when the manifest exists and cmake exits with a non-success status,
\* ninja is never invoked, no link directive is emitted, and the run goes to
\* Failed with the configuration-failed error.
C2_ConfigureFailureAborts ==
    /\ [](ConfigureFailed => /\ ~Invoked("ninja")
                             /\ ~HasLink
                             /\ pc \in {"L50", "done"}
                             /\ (Finished => ConfigureFailedEnd))
    /\ (ConfigureFailed ~> ConfigureFailedEnd)

C2_Witness == ConfigureFailed /\ ConfigureFailedEnd /\ Len(procs) = 1

\* C3: when the manifest is found absent, the run has invoked no subprocess,
\* emitted no link directive, left the build directory as it was, and it
\* ends successfully (NoOp).
C3_AbsentManifestIsNoOp ==
    (LexerRun /\ loc.manifest = "absent") =>
        /\ procs = <<>> /\ running = "none"
        /\ ~HasLink
        /\ loc.mkdir = "none"
        /\ fs.ws[loc.manifest_dir] = loc.ws0
        /\ Finished /\ panic = NoPanic /\ Outcome = "NoOp"

C3_Witness ==
    LexerRun /\ loc.manifest = "absent" /\ Finished /\ fs.ws[loc.manifest_dir] = "absent"

BothSucceeded ==
    /\ loc.manifest = "present"
    /\ ExitedOk(loc.cmake_status)
    /\ ExitedOk(loc.ninja_status)

\* C4: a finished run in which the manifest exists and cmake and ninja both
\* exited with success ended in LinkAnnounced with exactly one search-path
\* and one static-link directive, the search path being the directory that
\* was the working directory of both subprocesses.
C4_SuccessAnnouncesWorkspace ==
    (Finished /\ BothSucceeded) =>
        /\ Outcome = "LinkAnnounced"
        /\ Len(SearchLines) = 1 /\ Len(LibLines) = 1
        /\ LibLines[1].value = <<"static", "native">>
        /\ Len(procs) = 2
        /\ procs[1].tool = "cmake" /\ procs[2].tool = "ninja"
        /\ procs[1].cwd = procs[2].cwd
        /\ SearchLines[1].value = <<"native">> \o procs[1].cwd
        /\ procs[1].cwd = Append(loc.manifest_dir, "build")

C4_Witness == Finished /\ BothSucceeded /\ Len(LinkLines(stdout)) = 2

\* C5: at the end of every run, whatever way it ended, the search-path
\* directive has been emitted exactly when the static-link directive has.
C5_LinkDirectiveWhole ==
    Finished => (Len(SearchLines) > 0 <=> Len(LibLines) > 0)

C5_Witness ==
    Finished /\ Outcome = "LinkAnnounced" /\ Len(SearchLines) > 0 /\ Len(LibLines) > 0

\* the RebuildTrigger set: manifest, native sources, native headers, the
\* crate's dependency manifest, the crate's source directory
RebuildTriggers ==
    << [key |-> "rerun-if-changed", value |-> <<"CMakeLists.txt">>],
       [key |-> "rerun-if-changed", value |-> <<"src/*.c">>],
       [key |-> "rerun-if-changed", value |-> <<"inc/*.h">>],
       [key |-> "rerun-if-changed", value |-> <<"Cargo.toml">>],
       [key |-> "rerun-if-changed", value |-> <<"src/">>] >>

AtOrPastManifestCheck == LexerRun /\ (pc = "L36" \/ loc.manifest # "unchecked")

\* C6 as stated: every run of the lexer script has declared all five rerun
\* triggers by the time the manifest is tested and by the time it ends.
C6_Original_TriggersInEveryRun ==
    (LexerRun /\ (Finished \/ AtOrPastManifestCheck)) => Triggers(stdout) = RebuildTriggers

\* C6 amended: every run that gets past the metadata emission has declared
\* all five rerun triggers when the manifest is about to be tested, and the
\* declarations are the same whatever the test and the subprocesses yield.
C6_TriggersBeforeManifestCheck ==
    AtOrPastManifestCheck => Triggers(stdout) = RebuildTriggers

C6_Witness == LexerRun /\ pc = "L36" /\ loc.manifest = "unchecked" /\ Len(Triggers(stdout)) = 5

TwoRuns == LexerRun /\ Finished /\ hist # NoRun

\* C7 as stated: any two finished runs of the lexer script declared the same
\* sequence of rerun triggers.
C7_Original_SameTriggersAnyTwoRuns ==
    TwoRuns => hist.triggers = Triggers(stdout)

\* C7 amended: any two finished runs that reached the manifest test declared
\* the same sequence of rerun triggers, whether the manifest existed or not
\* and however the subprocesses ended.
C7_SameTriggersOnceChecked ==
    (TwoRuns /\ hist.manifest # "unchecked" /\ loc.manifest # "unchecked")
        => hist.triggers = Triggers(stdout)

C7_Witness ==
    /\ TwoRuns /\ hist.manifest = "absent" /\ hist.root # loc.manifest_dir
    /\ loc.manifest = "present" /\ Outcome = "Failed" /\ Len(Triggers(stdout)) = 5

\* what a panic message says about the failure
Named(msg) ==
    CASE msg = "Failed to execute cmake. Make sure CMake is installed."
           -> [error |-> "ToolNotFound", stage |-> "configure"]
      [] msg = "Failed to execute ninja. Make sure Ninja is installed."
           -> [error |-> "ToolNotFound", stage |-> "build"]
      [] msg = "CMake configuration failed"
           -> [error |-> "ExternalToolFailure", stage |-> "configure"]
      [] msg = "Ninja build failed"
           -> [error |-> "ExternalToolFailure", stage |-> "build"]
      [] OTHER -> [error |-> "other", stage |-> "none"]

CmakeNotLaunched == LexerRun /\ panic.line = 48

\* C8: when the manifest exists and cmake cannot be launched, the run ends
\* Failed with a tool-not-found error naming the configure stage, no
\* subprocess has been invoked and no link directive emitted.
C8_MissingCmakeAborts ==
    CmakeNotLaunched =>
        /\ loc.manifest = "present"
        /\ Finished /\ Outcome = "Failed"
        /\ Named(panic.msg) = [error |-> "ToolNotFound", stage |-> "configure"]
        /\ panic.cause = "io::Error"
        /\ procs = <<>> /\ running = "none"
        /\ ~Exited(loc.cmake_status) /\ ~Exited(loc.ninja_status)
        /\ ~HasLink

C8_Witness == CmakeNotLaunched /\ Finished /\ loc.mkdir = "ok"

\* C9: a finished run that did not fail and did not emit both link
\* directives found the manifest absent; one that found it present either
\* failed or ended in LinkAnnounced with both link directives.
C9_NoSilentSkip ==
    (LexerRun /\ Finished) =>
        /\ (Outcome # "Failed" /\ ~(Len(SearchLines) = 1 /\ Len(LibLines) = 1))
              => loc.manifest = "absent"
        /\ loc.manifest = "present"
              => \/ Outcome = "Failed"
                 \/ Outcome = "LinkAnnounced" /\ Len(SearchLines) = 1 /\ Len(LibLines) = 1

C9_Witness ==
    LexerRun /\ Finished /\ loc.manifest = "present" /\ Outcome = "Failed" /\ ~HasLink

\* C10: when the build directory exists at the start of a run (left by any
\* earlier runs), creating it reports no error; a run whose subprocesses
\* both succeed ends in LinkAnnounced whether or not it pre-existed.
C10_ExistingWorkspaceTolerated ==
    LexerRun =>
        /\ loc.ws0 # "absent" => (loc.mkdir # "err" /\ panic.line # 38)
        /\ (loc.ws0 # "absent" /\ pc \in {"L41", "L47", "L50", "L55", "L57", "L60", "L65", "L66"})
              => loc.mkdir = "ok"
        /\ (Finished /\ BothSucceeded) => (Outcome = "LinkAnnounced" /\ Len(LinkLines(stdout)) = 2)

C10_Witness ==
    /\ LexerRun /\ Finished /\ BothSucceeded /\ Outcome = "LinkAnnounced"
    /\ loc.ws0 = "populated"
    /\ hist.outcome = "Failed" /\ hist.manifest = "present" /\ hist.root = loc.manifest_dir

BuildFailed ==
    /\ LexerRun /\ ExitedOk(loc.cmake_status)
    /\ Exited(loc.ninja_status) /\ ~Success(loc.ninja_status[1])

\* C11: when cmake succeeded and ninja was launched and exited with a
\* non-success status, the run ends Failed with a build-failed error that
\* names the build stage (not the configure stage), and no link directive
\* is emitted.
C11_BuildFailureAborts ==
    BuildFailed =>
        /\ ~HasLink
        /\ pc \in {"L60", "done"}
        /\ Finished =>
              /\ Outcome = "Failed"
              /\ Named(panic.msg) = [error |-> "ExternalToolFailure", stage |-> "build"]
              /\ panic.msg # "CMake configuration failed"

C11_Witness == BuildFailed /\ Finished /\ Len(procs) = 2 /\ panic.line = 61

InputMissing == loc.missing # ""

\* C12: a run of either script in which a required environment input is
\* absent ends Failed at once: the fragment is not written, nothing is
\* written to stdout, the manifest is not tested and no subprocess is tried.
C12_MissingInputAborts ==
    InputMissing =>
        /\ Finished /\ Outcome = "Failed"
        /\ panic.cause = "VarError::NotPresent"
        /\ loc.written = "none"
        /\ stdout = <<>>
        /\ loc.manifest = "unchecked" /\ loc.mkdir = "none"
        /\ loc.attempts = <<>> /\ procs = <<>> /\ running = "none"

C12_Witness ==
    /\ Finished
    /\ \/ script = "lexer" /\ loc.missing = "CARGO_PKG_NAME"
       \/ script = "analysis" /\ loc.missing = "CARGO_PKG_VERSION"

\* the fragment file of the running script
Fragment ==
    fs.frag[<<"out", IF script = "lexer" THEN "lexer_info.rs" ELSE "analysis_info.rs">>]

ValuesOf(lines, c) == SelectSeq(lines, LAMBDA d : d.const = c)

\* C13: once a run has written its fragment, the file holds exactly one
\* declaration of each of BUILD_TIME, PKG_VERSION and PKG_NAME, with the
\* values of this run, whatever earlier runs left in the file.
C13_FragmentOverwritten ==
    loc.written = "ok" =>
        /\ Fragment.exists
        /\ Len(Fragment.lines) = 3
        /\ ValuesOf(Fragment.lines, "BUILD_TIME") =
              << [const |-> "BUILD_TIME", value |-> TimeStrings[loc.now]] >>
        /\ ValuesOf(Fragment.lines, "PKG_VERSION") =
              << [const |-> "PKG_VERSION", value |-> loc.version] >>
        /\ ValuesOf(Fragment.lines, "PKG_NAME") =
              << [const |-> "PKG_NAME", value |-> loc.name] >>
        /\ loc.version # "" /\ loc.name # ""

C13_Witness ==
    /\ LexerRun /\ Finished /\ loc.written = "ok" /\ loc.now = 1
    /\ hist.manifest # "unchecked"

\* C14: two runs for the same project root that both reach LinkAnnounced
\* emit the same link directives: the build directory under that root as
\* search path and the static library "native", whatever the time, the
\* package identity and the earlier content of the build directory.
C14_LinkDirectivesFixed ==
    (TwoRuns /\ Outcome = "LinkAnnounced" /\ hist.outcome = "LinkAnnounced"
             /\ hist.root = loc.manifest_dir) =>
        /\ LinkLines(stdout) = hist.links
        /\ LinkLines(stdout) =
              << [key |-> "rustc-link-search",
                  value |-> <<"native">> \o loc.manifest_dir \o <<"build">>],
                 [key |-> "rustc-link-lib", value |-> <<"static", "native">>] >>

C14_Witness ==
    /\ TwoRuns /\ Outcome = "LinkAnnounced" /\ hist.outcome = "LinkAnnounced"
    /\ hist.root = loc.manifest_dir /\ Len(hist.links) = 2
    /\ loc.ws0 = "populated"

\* the step of the run a statement belongs to
Rank(p) ==
    CASE p \in {"idle", "L7", "L8", "L16", "L17", "L18", "L20"} -> 1
      [] p \in {"L27", "L28", "L29", "L30", "L31", "L32"} -> 2
      [] p = "L36" -> 3
      [] p \in {"L38", "L41", "L47", "L50"} -> 4
      [] p \in {"L55", "L57", "L60"} -> 5
      [] p \in {"L65", "L66"} -> 6
      [] OTHER -> 7

Attempted(tool) == \E i \in DOMAIN loc.attempts : loc.attempts[i] = tool
NumExited ==
    (IF Exited(loc.cmake_status) THEN 1 ELSE 0) + (IF Exited(loc.ninja_status) THEN 1 ELSE 0)

SequentialRun ==
    LexerRun =>
        /\ (pc = "L36" \/ loc.manifest # "unchecked") => loc.written = "ok"
        /\ loc.mkdir # "none" => loc.manifest = "present"
        /\ Attempted("cmake") => (loc.manifest = "present" /\ loc.mkdir = "ok")
        /\ Attempted("ninja") => (Exited(loc.cmake_status) /\ Len(procs) - NumExited <= 1)
        /\ Len(procs) - NumExited \in {0, 1}
        /\ Len(procs) - NumExited = 1 => (running # "none" /\ pc \in {"L47", "L57"})

\* C15: in a run the steps come in the order metadata emission, manifest
\* test, configuration, build: the statement reached never belongs to an
\* earlier step, the manifest is tested only once the fragment is written,
\* ninja is tried only once cmake has terminated, and at most one
\* subprocess is running at any time, the script waiting for it.
C15_StepsInOrder ==
    /\ []SequentialRun
    /\ [][(LexerRun /\ pc' # "idle") => Rank(pc') >= Rank(pc)]_vars

C15_Witness ==
    /\ LexerRun /\ pc = "L57" /\ running = "ninja" /\ Len(procs) = 2
    /\ loc.written = "ok" /\ Exited(loc.cmake_status)

\* the state of the orchestrator's state machine a run is in
State ==
    CASE Rank(pc) \in {1, 2} -> "Idle"
      [] Rank(pc) = 3 -> "DescriptorCheck"
      [] Rank(pc) = 4 -> "Configuring"
      [] Rank(pc) = 5 -> "Building"
      [] Rank(pc) = 6 -> "LinkAnnounced"
      [] OTHER -> IF panic # NoPanic THEN "Failed"
                  ELSE IF loc.manifest = "absent" THEN "NoOp"
                  ELSE IF loc.manifest = "present" THEN "LinkAnnounced"
                  ELSE "Unknown"

Transitions ==
    { <<"Idle", "DescriptorCheck">>, <<"DescriptorCheck", "NoOp">>,
      <<"DescriptorCheck", "Configuring">>, <<"Configuring", "Building">>,
      <<"Building", "LinkAnnounced">>,
      <<"Idle", "Failed">>, <<"Configuring", "Failed">>, <<"Building", "Failed">> }

EndedFailed == panic # NoPanic
EndedNoOp == panic = NoPanic /\ loc.manifest = "absent" /\ ~HasLink /\ procs = <<>>
EndedLinkAnnounced ==
    /\ panic = NoPanic /\ loc.manifest = "present"
    /\ Len(SearchLines) = 1 /\ Len(LibLines) = 1
    /\ ExitedOk(loc.cmake_status) /\ ExitedOk(loc.ninja_status)

ExactlyOneEnd ==
    /\ EndedFailed \/ EndedNoOp \/ EndedLinkAnnounced
    /\ ~(EndedFailed /\ EndedNoOp)
    /\ ~(EndedFailed /\ EndedLinkAnnounced)
    /\ ~(EndedNoOp /\ EndedLinkAnnounced)
    /\ State \in {"Failed", "NoOp", "LinkAnnounced"}

\* C16: a started run of the orchestrator reaches its end, in exactly one of
\* NoOp, LinkAnnounced and Failed (every launched subprocess terminating);
\* after the end the run invokes nothing and emits nothing more; and the
\* run moves only along Idle -> DescriptorCheck -> {NoOp | Configuring ->
\* Building -> LinkAnnounced} or from a failing stage to Failed.
C16_RunTerminates ==
    /\ (LexerRun /\ ~Finished) ~> (LexerRun /\ Finished)
    /\ []((LexerRun /\ Finished) => ExactlyOneEnd)
    /\ [][(LexerRun /\ Finished) =>
             (pc' = "idle" /\ Len(procs') <= Len(procs) /\ Len(stdout') <= Len(stdout)
                /\ Len(loc'.attempts) <= Len(loc.attempts))]_vars
    /\ [][(LexerRun /\ pc' # "idle") =>
             (State' = State \/ <<State, State'>> \in Transitions)]_vars

C16_Witness == LexerRun /\ Finished /\ EndedLinkAnnounced /\ State = "LinkAnnounced"

Count(seq, x) == Len(SelectSeq(seq, LAMBDA y : y = x))

\* C17: in a run cmake is tried at most once and ninja at most once; a
\* failed launch or a non-success exit of either ends the run with no
\* further try of either tool.
C17_NoRetry ==
    LexerRun =>
        /\ Count(loc.attempts, "cmake") <= 1 /\ Count(loc.attempts, "ninja") <= 1
        /\ Len(procs) <= Len(loc.attempts)
        /\ panic # NoPanic => Finished
        /\ panic.line \in {48, 51} => loc.attempts = <<"cmake">>
        /\ panic.line \in {58, 61} => loc.attempts = <<"cmake", "ninja">>
        /\ (Exited(loc.cmake_status) /\ ~Success(loc.cmake_status[1]))
              => (loc.attempts = <<"cmake">> /\ pc \in {"L50", "done"})
        /\ (Exited(loc.ninja_status) /\ ~Success(loc.ninja_status[1]))
              => (loc.attempts = <<"cmake", "ninja">> /\ pc \in {"L60", "done"})

C17_Witness ==
    LexerRun /\ Finished /\ panic.line = 58 /\ loc.attempts = <<"cmake", "ninja">>

\* C18: a run whose fragment write fails ends Failed at once, with nothing
\* written to stdout, the manifest not tested and no subprocess tried; a
\* run that finds the manifest and fails to create the build directory ends
\* Failed at once, with neither cmake nor ninja tried and no link directive.
C18_IoFailureAborts ==
    /\ loc.written = "err" =>
          /\ Finished /\ Outcome = "Failed" /\ panic.cause = "io::Error"
          /\ panic.line \in {19, 20}
          /\ stdout = <<>>
          /\ loc.manifest = "unchecked" /\ loc.mkdir = "none"
          /\ loc.attempts = <<>> /\ procs = <<>>
    /\ loc.mkdir = "err" =>
          /\ LexerRun /\ loc.manifest = "present"
          /\ Finished /\ Outcome = "Failed" /\ panic.cause = "io::Error"
          /\ panic.msg = "Failed to create build directory"
          /\ loc.attempts = <<>> /\ procs = <<>> /\ running = "none"
          /\ ~HasLink
          /\ fs.ws[loc.manifest_dir] = "absent"

C18_Witness == LexerRun /\ Finished /\ loc.mkdir = "err" /\ loc.written = "ok"

C18_WitnessWrite == LexerRun /\ Finished /\ loc.written = "err"

IsPrefix(a, b) == Len(a) <= Len(b) /\ a = SubSeq(b, 1, Len(a))

FlagLine == [key |-> "rustc-cfg", value |-> <<"lexer_crate">>]

\* the full directive channel of a run for project root r
Channel(r) ==
    RebuildTriggers \o <<FlagLine>> \o
    << [key |-> "rustc-link-search", value |-> <<"native">> \o r \o <<"build">>],
       [key |-> "rustc-link-lib", value |-> <<"static", "native">>] >>

====
